---- MODULE Spec2Model ----
(***************************************************************************)
(* The advice generator: the Pinia store userAdviceStore (state, the       *)
(* fetchAdvice action, the getters getAdvice and getIdAdvice) and the root *)
(* component App.vue (mounted hook, newAdvice click handler, template).    *)
(*                                                                         *)
(* One step of the model is one task of the browser's event loop together  *)
(* with the microtasks it schedules: the mounted hook, a click on the      *)
(* dice, or the settlement of one axios.get promise followed by the        *)
(* continuation of the fetchAdvice call that awaits it.  console.log has   *)
(* no effect on the state below and is left out.                           *)
(***************************************************************************)
EXTENDS Integers, Sequences, FiniteSets

VARIABLES
    advice,     \* store state: state.advice
    nAdvice,    \* store state: state.nAdvice
    isMounted,  \* App.vue has been mounted (app.mount("#app"))
    clicks,     \* clicks on the dice control so far
    nGet,       \* GET requests issued by axios.get so far
    calls,      \* the fetchAdvice invocations, in the order they were issued
    alerts,     \* the alert() dialogs raised, in order
    order       \* the fetchAdvice invocations in the order they completed

vars == <<advice, nAdvice, isMounted, clicks, nGet, calls, alerts, order>>

(***************************************************************************)
(* Bounds and inputs.                                                      *)
(***************************************************************************)
MaxClicks == 2

MaxCalls == MaxClicks + 1

Texts == {"Be kind.", "Hi"}

Ids == {7, 42}

(***************************************************************************)
(* JavaScript values held by the store or found in a response.             *)
(***************************************************************************)
Str(s) == [t |-> "string", s |-> s, n |-> 0]

Num(n) == [t |-> "number", s |-> "", n |-> n]

Undef == [t |-> "undefined", s |-> "", n |-> 0]

Digit == <<"0", "1", "2", "3", "4", "5", "6", "7", "8", "9">>

RECURSIVE NumberToString(_)
NumberToString(n) ==
    IF n < 10 THEN Digit[n + 1]
    ELSE NumberToString(n \div 10) \o Digit[(n % 10) + 1]

\* `${v}` in a template literal: ToString(v)
TemplateToString(v) ==
    CASE v.t = "string" -> v.s
      [] v.t = "number" -> NumberToString(v.n)
      [] v.t = "undefined" -> "undefined"

\* {{ v }} in a Vue template: undefined and null are rendered as ''
toDisplayString(v) ==
    CASE v.t = "string" -> v.s
      [] v.t = "number" -> NumberToString(v.n)
      [] v.t = "undefined" -> ""

(***************************************************************************)
(* What axios.get can settle with.  The promise rejects (network error,    *)
(* timeout, non-2xx status), or resolves with a body that has no slip      *)
(* object, or resolves with a slip whose id and advice are each present    *)
(* or missing.                                                             *)
(***************************************************************************)
Pending == [kind |-> "pending", id |-> Undef, advice |-> Undef]

Rejected == [kind |-> "rejected", id |-> Undef, advice |-> Undef]

NoSlip == [kind |-> "noslip", id |-> Undef, advice |-> Undef]

Slip(id, adv) == [kind |-> "slip", id |-> id, advice |-> adv]

IdValues == {Num(i) : i \in Ids} \cup {Undef}

AdviceValues == {Str(a) : a \in Texts} \cup {Undef}

ResolvedResponses == {Slip(i, a) : i \in IdValues, a \in AdviceValues} \cup {NoSlip}

(***************************************************************************)
(* The store.                                                              *)
(***************************************************************************)
state_zero == [advice |-> Str(""), nAdvice |-> Num(0)]

state == [advice |-> Str(""), nAdvice |-> Str("")]

store == [advice |-> advice, nAdvice |-> nAdvice]

getAdvice_unquoted(s) == TemplateToString(s.advice)

getAdvice(s) == "\"" \o TemplateToString(s.advice) \o "\""

getIdAdvice(s) == "advice #" \o TemplateToString(s.nAdvice)

InFlight == {c \in DOMAIN calls : calls[c].pc = "await"}

Completed == {c \in DOMAIN calls : calls[c].pc = "done"}

\* fetchAdvice up to its await: the request is issued and the call suspends
fetchAdvice_blanks(origin) ==
    /\ nGet' = nGet + 1
    /\ calls' = Append(calls, [origin |-> origin, pc |-> "await",
                               resp |-> Pending, wrote |-> FALSE])
    /\ advice' = state.advice
    /\ nAdvice' = state.nAdvice
    /\ UNCHANGED <<alerts, order>>

fetchAdvice(origin) ==
    /\ nGet' = nGet + 1
    /\ calls' = Append(calls, [origin |-> origin, pc |-> "await",
                               resp |-> Pending, wrote |-> FALSE])
    /\ UNCHANGED <<advice, nAdvice, alerts, order>>

\* the rest of the try block, once the promise has resolved with a slip
TryBlock_partial(c, r) ==
    /\ advice' = IF r.advice = Undef THEN advice ELSE r.advice
    /\ nAdvice' = IF r.id = Undef THEN nAdvice ELSE r.id
    /\ calls' = [calls EXCEPT ![c] = [@ EXCEPT !.pc = "done", !.resp = r,
                                                !.wrote = TRUE]]
    /\ order' = Append(order, c)
    /\ UNCHANGED <<isMounted, clicks, nGet, alerts>>

TryBlock_latestOnly(c, r) ==
    /\ advice' = IF c = Len(calls) THEN r.advice ELSE advice
    /\ nAdvice' = IF c = Len(calls) THEN r.id ELSE nAdvice
    /\ calls' = [calls EXCEPT ![c] = [@ EXCEPT !.pc = "done", !.resp = r,
                                                !.wrote = (c = Len(calls))]]
    /\ order' = Append(order, c)
    /\ UNCHANGED <<isMounted, clicks, nGet, alerts>>

TryBlock(c, r) ==
    /\ advice' = r.advice
    /\ nAdvice' = r.id
    /\ calls' = [calls EXCEPT ![c] = [@ EXCEPT !.pc = "done", !.resp = r,
                                                !.wrote = TRUE]]
    /\ order' = Append(order, c)
    /\ UNCHANGED <<isMounted, clicks, nGet, alerts>>

\* the catch block
CatchBlock_clears(c, r, error) ==
    /\ alerts' = Append(alerts, [call |-> c, error |-> error])
    /\ calls' = [calls EXCEPT ![c] = [@ EXCEPT !.pc = "done", !.resp = r]]
    /\ order' = Append(order, c)
    /\ advice' = state.advice
    /\ nAdvice' = state.nAdvice
    /\ UNCHANGED <<isMounted, clicks, nGet>>

CatchBlock_silent(c, r, error) ==
    /\ calls' = [calls EXCEPT ![c] = [@ EXCEPT !.pc = "done", !.resp = r]]
    /\ order' = Append(order, c)
    /\ UNCHANGED <<advice, nAdvice, isMounted, clicks, nGet, alerts>>

CatchBlock(c, r, error) ==
    /\ alerts' = Append(alerts, [call |-> c, error |-> error])
    /\ calls' = [calls EXCEPT ![c] = [@ EXCEPT !.pc = "done", !.resp = r]]
    /\ order' = Append(order, c)
    /\ UNCHANGED <<advice, nAdvice, isMounted, clicks, nGet>>

\* axios.get resolves: destructuring data.data.slip throws when there is no
\* slip object, and yields undefined for a field the slip lacks
axiosResolves(c, r) ==
    /\ c \in InFlight
    /\ r \in ResolvedResponses
    /\ IF r.kind = "slip" THEN TryBlock(c, r)
                          ELSE CatchBlock(c, r, "TypeError")

axiosRejects(c) ==
    /\ c \in InFlight
    /\ CatchBlock(c, Rejected, "AxiosError")

(***************************************************************************)
(* The view.                                                               *)
(***************************************************************************)
mounted ==
    /\ ~isMounted
    /\ isMounted' = TRUE
    /\ fetchAdvice("mounted")
    /\ UNCHANGED clicks

newAdvice_debounced ==
    /\ isMounted
    /\ clicks < MaxClicks
    /\ clicks' = clicks + 1
    /\ IF InFlight = {} THEN fetchAdvice("newAdvice")
       ELSE UNCHANGED <<advice, nAdvice, nGet, calls, alerts, order>>
    /\ UNCHANGED isMounted

newAdvice ==
    /\ isMounted
    /\ clicks < MaxClicks
    /\ clicks' = clicks + 1
    /\ fetchAdvice("newAdvice")
    /\ UNCHANGED isMounted

\* <h4>{{ nAdvice }}</h4> and <h1>{{ advice }}</h1>, bound by mapState
h4 == toDisplayString(store.nAdvice)

h1 == toDisplayString(store.advice)

(***************************************************************************)
(* Specifications.                                                         *)
(***************************************************************************)
Init ==
    /\ advice = state.advice
    /\ nAdvice = state.nAdvice
    /\ isMounted = FALSE
    /\ clicks = 0
    /\ nGet = 0
    /\ calls = <<>>
    /\ alerts = <<>>
    /\ order = <<>>

Settle(c) == axiosRejects(c) \/ \E r \in ResolvedResponses : axiosResolves(c, r)

Next ==
    \/ mounted
    \/ newAdvice
    \/ \E c \in 1..MaxCalls, r \in ResolvedResponses : axiosResolves(c, r)
    \/ \E c \in 1..MaxCalls : axiosRejects(c)

Spec == Init /\ [][Next]_vars

\* the network eventually answers every request
FairSpec == Spec /\ \A c \in 1..MaxCalls : WF_vars(Settle(c))

(***************************************************************************)
(* Vocabulary of the properties.                                           *)
(***************************************************************************)
Record == <<advice, nAdvice>>

AlertCount(c) == Cardinality({k \in DOMAIN alerts : alerts[k].call = c})

\* the call took the success path: its promise resolved with a slip object
Successful(c) == c \in Completed /\ calls[c].resp.kind = "slip"

WellFormed(r) == r.kind = "slip" /\ r.id.t = "number" /\ r.advice.t = "string"

Malformed(r) == r.kind = "noslip" \/ (r.kind = "slip" /\ (r.id = Undef \/ r.advice = Undef))

Failing(r) == r.kind \in {"rejected", "noslip"}

SuccessfulInOrder == SelectSeq(order, LAMBDA c : calls[c].resp.kind = "slip")

LastSuccessful == SuccessfulInOrder[Len(SuccessfulInOrder)]

\* call c completes in this step
Completes(c) == c \in InFlight /\ calls'[c].pc = "done"

(***************************************************************************)
(* C1: once the call that received a well-formed slip {id: i, advice: a}   *)
(* has completed and no later response has been applied, getAdvice is a in *)
(* double quotes and getIdAdvice is "advice #" followed by i in decimal.   *)
(***************************************************************************)
C1_GettersShowLastSlip ==
    \A c \in DOMAIN calls :
        (Successful(c) /\ LastSuccessful = c /\ WellFormed(calls[c].resp)) =>
            /\ getAdvice(store) = "\"" \o calls[c].resp.advice.s \o "\""
            /\ getIdAdvice(store) = "advice #" \o NumberToString(calls[c].resp.id.n)

C1_Witness ==
    /\ order # <<>>
    /\ Successful(order[Len(order)])
    /\ calls[order[Len(order)]].resp = Slip(Num(42), Str("Be kind."))
    /\ getAdvice(store) = "\"Be kind.\""
    /\ getIdAdvice(store) = "advice #42"

(***************************************************************************)
(* C2: when the request of a fetchAdvice call fails (the promise rejects,  *)
(* or the body has no slip), with any number of other requests in flight,  *)
(* the step that handles the failure leaves advice and nAdvice as they     *)
(* were and raises one alert for that call; a failed call has raised       *)
(* exactly one alert.                                                      *)
(***************************************************************************)
C2_FailureKeepsRecordAlertsOnce ==
    /\ [](\A c \in Completed : Failing(calls[c].resp) => AlertCount(c) = 1)
    /\ [][\A c \in DOMAIN calls :
            (Completes(c) /\ Failing(calls'[c].resp)) =>
                /\ advice' = advice
                /\ nAdvice' = nAdvice
                /\ Len(alerts') = Len(alerts) + 1
                /\ alerts'[Len(alerts')].call = c]_vars

C2_Witness ==
    /\ Record # <<state.advice, state.nAdvice>>
    /\ order # <<>>
    /\ calls[order[Len(order)]].resp = Rejected
    /\ AlertCount(order[Len(order)]) = 1
    /\ InFlight # {}

(***************************************************************************)
(* C3: the pair (advice, nAdvice) is the initial pair or the (advice, id)  *)
(* pair of one response: the text of one fetch is never held with the id   *)
(* of another.                                                             *)
(***************************************************************************)
C3_RecordFromOneFetch ==
    \/ Record = <<state.advice, state.nAdvice>>
    \/ \E c \in Completed :
        /\ calls[c].resp.kind = "slip"
        /\ Record = <<calls[c].resp.advice, calls[c].resp.id>>

C3_Witness ==
    /\ Cardinality({c \in DOMAIN calls : Successful(c)}) >= 2
    /\ \E c, d \in Completed :
        /\ Successful(c) /\ Successful(d)
        /\ calls[c].resp.advice # calls[d].resp.advice
        /\ calls[c].resp.id # calls[d].resp.id
        /\ Record = <<calls[d].resp.advice, calls[d].resp.id>>

(***************************************************************************)
(* C4: once all issued calls have resolved, the record is the response of  *)
(* the call that resolved last among the successful ones, whatever the     *)
(* order of issue (the initial record when none succeeded).                *)
(***************************************************************************)
C4_LastResolvedWins ==
    (isMounted /\ InFlight = {}) =>
        IF SuccessfulInOrder = <<>>
        THEN Record = <<state.advice, state.nAdvice>>
        ELSE Record = <<calls[LastSuccessful].resp.advice, calls[LastSuccessful].resp.id>>

C4_Witness ==
    /\ InFlight = {}
    /\ Len(calls) >= 2
    /\ Len(SuccessfulInOrder) >= 2
    /\ LastSuccessful = 1
    /\ calls[1].resp # calls[2].resp
    /\ Successful(2)
    /\ Record = <<calls[1].resp.advice, calls[1].resp.id>>

(***************************************************************************)
(* C5: after the view is mounted, the number of GET requests issued is 1   *)
(* plus the number of clicks so far; before, none has been issued.         *)
(***************************************************************************)
C5_OneRequestPerTrigger ==
    /\ isMounted => (nGet = 1 + clicks /\ Len(calls) = nGet)
    /\ ~isMounted => nGet = 0

C5_Witness ==
    /\ isMounted
    /\ clicks >= 2
    /\ nGet = 3
    /\ Cardinality(InFlight) >= 2
    /\ Len(alerts) >= 1

C7_ViewRendersGetters ==
    isMounted => (h1 = getAdvice(store) /\ h4 = getIdAdvice(store))

(***************************************************************************)
(* C8: a call whose request resolves with a malformed response (no slip,   *)
(* or a slip lacking id or advice) keeps the record and raises an alert.   *)
(***************************************************************************)
C8_MalformedTreatedAsFailure ==
    [][\A c \in DOMAIN calls :
        (Completes(c) /\ Malformed(calls'[c].resp)) =>
            /\ advice' = advice
            /\ nAdvice' = nAdvice
            /\ Len(alerts') = Len(alerts) + 1]_vars

(***************************************************************************)
(* C9: a step changes advice or nAdvice only if it is the completion of a  *)
(* fetchAdvice call on its success path, and then it writes that call's    *)
(* response and nothing else of the program's state.                       *)
(***************************************************************************)
C9_OnlySuccessWrites ==
    [][(advice' # advice \/ nAdvice' # nAdvice) =>
        \E c \in DOMAIN calls :
            /\ Completes(c)
            /\ calls'[c].resp.kind = "slip"
            /\ advice' = calls'[c].resp.advice
            /\ nAdvice' = calls'[c].resp.id
            /\ UNCHANGED <<isMounted, clicks, nGet, alerts>>]_vars

C9_Witness ==
    /\ Record # <<state.advice, state.nAdvice>>
    /\ clicks >= 1
    /\ Len(alerts) >= 1
    /\ InFlight # {}

(***************************************************************************)
(* C10: if the network answers every request, every issued call completes, *)
(* a completed call has either written the record or raised one alert      *)
(* (not both, not neither), a call in flight has done neither and can      *)
(* complete whatever the other calls do, and the number of requests in     *)
(* flight returns to zero.                                                 *)
(***************************************************************************)
C10_EveryCallCompletesOnce ==
    /\ \A c \in 1..MaxCalls : (c \in DOMAIN calls) ~> (c \in Completed)
    /\ []<>(InFlight = {})
    /\ [](\A c \in Completed :
            \/ calls[c].wrote /\ AlertCount(c) = 0
            \/ ~calls[c].wrote /\ AlertCount(c) = 1)
    /\ [](\A c \in InFlight :
            /\ ~calls[c].wrote /\ AlertCount(c) = 0
            /\ ENABLED Settle(c))

C10_Witness ==
    /\ InFlight = {}
    /\ Len(calls) = MaxCalls
    /\ \E c \in Completed : calls[c].wrote
    /\ \E c \in Completed : AlertCount(c) = 1

====
